---------------------------- MODULE Spec2Model ----------------------------
(***************************************************************************)
(* Model of the telemetry agent's host metrics (metrics/host.go) and       *)
(* installed-package scraper (the Go source embedded in                    *)
(* packaging/debian/postinst).                                             *)
(*                                                                         *)
(* Text is a sequence of one-character strings, so that splitting,         *)
(* trimming and searching are computed the way the Go code computes them.  *)
(***************************************************************************)
EXTENDS Integers, Sequences, FiniteSets, TLC

VARIABLES
    dir,        \* TRUE iff the directory of the telemetry file exists
    file,       \* the telemetry file: [exists, data]
    out,        \* what the last sequential call returned
    writes,     \* number of successful os.WriteFile calls so far
    clean,      \* TRUE while no I/O step has failed
    firstID,    \* the identifier generated by the first successful write
    start,      \* the file system the run started from: [dir, file]
    pc,         \* racing calls: position of each process in getInstanceID
    loc,        \* racing calls: locals of each process
    lastWriter, \* racing calls: process whose write reached the file last
    pIn,        \* parser: the arguments of the last parser call
    pOut,       \* parser: its result
    scr         \* scraper: locals of ScrapeInstalledPackages

vars == <<dir, file, out, writes, clean, firstID, start, pc, loc, lastWriter, pIn, pOut, scr>>

idVars    == <<out, writes, clean, firstID, start>>
raceVars  == <<pc, loc, lastWriter>>
parseVars == <<pIn, pOut>>

-----------------------------------------------------------------------------
(* Bounds *)

\* number of pieces a telemetry file content is assembled from
MaxPieces == 4
\* length of a generated identifier (a real UUID string has 36 characters)
UuidLen == 2
\* number of pieces a version or release token is assembled from
MaxVersionPieces == 3
\* number of pieces a command output is assembled from
MaxOutputPieces == 4
\* number of lines a command output is assembled from
MaxOutputLines == 2
\* number of names probed from the common and from the family catalogue
MaxCommon == 2
MaxFamily == 2

-----------------------------------------------------------------------------
(* strings: the Go standard library functions the code calls *)

\* s[i:] and s[:i] with Go's 0-based offsets
From(s, i) == SubSeq(s, i + 1, Len(s))
Upto(s, i) == SubSeq(s, 1, i)

HasPrefix(s, p) == Len(s) >= Len(p) /\ SubSeq(s, 1, Len(p)) = p

\* strings.Index: 0-based offset of the first occurrence of sub, -1 if none
Index(s, sub) ==
    LET hits == {i \in 0..(Len(s) - Len(sub)) : HasPrefix(From(s, i), sub)}
    IN  IF hits = {} THEN -1 ELSE CHOOSE i \in hits : \A j \in hits : i <= j

\* strings.LastIndex
LastIndex(s, sub) ==
    LET hits == {i \in 0..(Len(s) - Len(sub)) : HasPrefix(From(s, i), sub)}
    IN  IF hits = {} THEN -1 ELSE CHOOSE i \in hits : \A j \in hits : i >= j

Contains(s, sub) == Index(s, sub) >= 0

\* strings.Split(s, sep) for a one-character separator
RECURSIVE Split(_, _)
Split(s, sep) ==
    LET at == {i \in 1..Len(s) : s[i] = sep}
        i == CHOOSE i \in at : \A j \in at : i <= j
    IN  IF at = {} THEN <<s>> ELSE <<Upto(s, i - 1)>> \o Split(From(s, i), sep)

\* strings.Join
RECURSIVE Join(_, _)
Join(parts, sep) ==
    IF Len(parts) = 0 THEN <<>>
    ELSE IF Len(parts) = 1 THEN parts[1]
    ELSE parts[1] \o sep \o Join(Tail(parts), sep)

\* strings.ReplaceAll(s, old, new) for a one-character old
ReplaceAll(s, old, new) == Join(Split(s, old), new)

\* strings.Trim(s, cutset)
RECURSIVE TrimLeft(_, _)
TrimLeft(s, cutset) ==
    IF Len(s) > 0 /\ s[1] \in cutset THEN TrimLeft(Tail(s), cutset) ELSE s

RECURSIVE TrimRight(_, _)
TrimRight(s, cutset) ==
    IF Len(s) > 0 /\ s[Len(s)] \in cutset THEN TrimRight(Upto(s, Len(s) - 1), cutset) ELSE s

Trim(s, cutset) == TrimRight(TrimLeft(s, cutset), cutset)

\* the ASCII part of unicode.IsSpace
WhiteSpace == {" ", "\t", "\n", "\r", "\f"}

\* strings.TrimSpace
TrimSpace(s) == Trim(s, WhiteSpace)

\* concatenation of a sequence of strings
RECURSIVE Concat(_)
Concat(parts) == IF Len(parts) = 0 THEN <<>> ELSE parts[1] \o Concat(Tail(parts))

\* all strings assembled from at most n pieces
Assembled(pieces, n) == {Concat(ps) : ps \in UNION {[1..k -> pieces] : k \in 0..n}}

-----------------------------------------------------------------------------
(* bufio.Scanner *)

\* Stands for a run of bufio.MaxScanTokenSize (64 KiB) characters that holds
\* no newline: a line containing it does not fit the scanner's buffer.
Overlong == "<64KiB>"

\* The lines of data: bufio.ScanLines without its removal of a trailing
\* carriage return, which is also what customSplitFunc yields: split at
\* each newline, the text after the last newline being a line only when it
\* is not empty.
RawLines(data) ==
    LET parts == Split(data, "\n")
    IN  IF parts[Len(parts)] = <<>> THEN Upto(parts, Len(parts) - 1) ELSE parts

\* Scanner.Scan stops with ErrTooLong at the first line that does not fit.
RECURSIVE Fitting(_)
Fitting(lines) ==
    IF Len(lines) = 0 \/ Overlong \in {lines[1][i] : i \in 1..Len(lines[1])} THEN <<>>
    ELSE <<lines[1]>> \o Fitting(Tail(lines))

\* the tokens successive Scan calls deliver, and whether Scan ended in error
ScanTokens(lines) == [tokens |-> Fitting(lines), tooLong |-> Len(Fitting(lines)) < Len(lines)]

customSplitFunc(data) == ScanTokens(RawLines(data))

-----------------------------------------------------------------------------
(* metrics/host.go *)

instanceIDKey == <<"i","n","s","t","a","n","c","e","I","d">>
telemetryFile == "/usr/local/percona/telemetry_uuid"

NilErr == "nil"

\* uuid.New().String(): no colon, no white space, never empty
UuidChars == {"a", "4", "-"}
UUIDs == [1..UuidLen -> UuidChars]

\* fmt.Sprintf("%s: %s", instanceIDKey, instanceID)
TelemetryLine(id) == instanceIDKey \o <<":", " ">> \o id

NoFile == [exists |-> FALSE, data |-> <<>>]
FileOf(data) == [exists |-> TRUE, data |-> data]

\* scan loop without the break: the last matching line wins
RECURSIVE scanInstanceID_LastMatch(_)
scanInstanceID_LastMatch(lines) ==
    IF Len(lines) = 0 THEN <<>>
    ELSE LET parts == Split(lines[Len(lines)], ":")
         IN  IF Len(parts) = 2 /\ parts[1] = instanceIDKey
             THEN TrimSpace(parts[2])
             ELSE scanInstanceID_LastMatch(Upto(lines, Len(lines) - 1))

\* scan loop that trims the key before comparing it
RECURSIVE scanInstanceID_TrimKey(_)
scanInstanceID_TrimKey(lines) ==
    IF Len(lines) = 0 THEN <<>>
    ELSE LET parts == Split(lines[1], ":")
         IN  IF Len(parts) = 2 /\ TrimSpace(parts[1]) = instanceIDKey
             THEN TrimSpace(parts[2])
             ELSE scanInstanceID_TrimKey(Tail(lines))

\* The scan loop of getInstanceID: the first line that strings.Split cuts at
\* ":" into exactly two parts, the first being the key, gives the value.
RECURSIVE scanInstanceID(_)
scanInstanceID(lines) ==
    IF Len(lines) = 0 THEN <<>>
    ELSE LET parts == Split(lines[1], ":")
         IN  IF Len(parts) = 2 /\ parts[1] = instanceIDKey
             THEN TrimSpace(parts[2])
             ELSE scanInstanceID(Tail(lines))

\* The I/O steps that can fail, and what a failed os.WriteFile leaves behind:
\* the file as it was (the open failed) or a proper prefix of the data.
Faults == {"none", "mkdir", "open", "stat", "write"}

\* a write that returns the identifier without the "instanceId: " prefix stored
createTelemetryFile_NoKey(f, fault, uuid, left) ==
    IF fault = "write"
    THEN [dir |-> TRUE,
          file |-> IF left < 0 THEN f ELSE FileOf(Upto(TelemetryLine(uuid), left)),
          id |-> <<>>, err |-> "write failed", created |-> TRUE, wrote |-> FALSE]
    ELSE [dir |-> TRUE, file |-> FileOf(uuid),
          id |-> uuid, err |-> NilErr, created |-> TRUE, wrote |-> TRUE]

\* createTelemetryFile; `left` is the number of characters a failing write
\* stored, -1 when it failed before creating the file.
createTelemetryFile(f, fault, uuid, left) ==
    IF fault = "write"
    THEN [dir |-> TRUE,
          file |-> IF left < 0 THEN f ELSE FileOf(Upto(TelemetryLine(uuid), left)),
          id |-> <<>>, err |-> "write failed", created |-> TRUE, wrote |-> FALSE]
    ELSE [dir |-> TRUE, file |-> FileOf(TelemetryLine(uuid)),
          id |-> uuid, err |-> NilErr, created |-> TRUE, wrote |-> TRUE]

\* getInstanceID that regenerates the identifier when the file has no key
getInstanceID_Regenerate(d, f, fault, uuid, left) ==
    IF ~d
    THEN IF fault = "mkdir"
         THEN [dir |-> FALSE, file |-> f, id |-> <<>>, err |-> "mkdir failed",
               created |-> FALSE, wrote |-> FALSE]
         ELSE createTelemetryFile(f, fault, uuid, left)
    ELSE IF fault = "open"
    THEN [dir |-> d, file |-> f, id |-> <<>>, err |-> "open failed",
          created |-> FALSE, wrote |-> FALSE]
    ELSE IF ~f.exists
    THEN createTelemetryFile(f, fault, uuid, left)
    ELSE IF fault = "stat"
    THEN [dir |-> d, file |-> f, id |-> <<>>, err |-> "stat failed",
          created |-> FALSE, wrote |-> FALSE]
    ELSE IF Len(f.data) = 0 \/ scanInstanceID(customSplitFunc(f.data).tokens) = <<>>
    THEN createTelemetryFile(f, fault, uuid, left)
    ELSE [dir |-> d, file |-> f, id |-> scanInstanceID(customSplitFunc(f.data).tokens),
          err |-> NilErr, created |-> FALSE, wrote |-> FALSE]

\* getInstanceID run to completion on directory state d and file f
getInstanceID(d, f, fault, uuid, left) ==
    IF ~d
    THEN IF fault = "mkdir"
         THEN [dir |-> FALSE, file |-> f, id |-> <<>>, err |-> "mkdir failed",
               created |-> FALSE, wrote |-> FALSE]
         ELSE createTelemetryFile(f, fault, uuid, left)
    ELSE IF fault = "open"
    THEN [dir |-> d, file |-> f, id |-> <<>>, err |-> "open failed",
          created |-> FALSE, wrote |-> FALSE]
    ELSE IF ~f.exists
    THEN createTelemetryFile(f, fault, uuid, left)
    ELSE IF fault = "stat"
    THEN [dir |-> d, file |-> f, id |-> <<>>, err |-> "stat failed",
          created |-> FALSE, wrote |-> FALSE]
    ELSE IF Len(f.data) = 0
    THEN createTelemetryFile(f, fault, uuid, left)
    ELSE [dir |-> d, file |-> f, id |-> scanInstanceID(customSplitFunc(f.data).tokens),
          err |-> NilErr, created |-> FALSE, wrote |-> FALSE]

\* what a failing write may have stored: -1, or the length of a proper prefix
Leftovers == -1..(Len(instanceIDKey) + 1 + UuidLen)

\* whether the chosen fault is one the call runs into
Hits(d, f, fault) ==
    CASE fault = "none"  -> TRUE
      [] fault = "mkdir" -> ~d
      [] fault = "open"  -> d
      [] fault = "stat"  -> d /\ f.exists
      [] fault = "write" -> ~d \/ ~f.exists \/ Len(f.data) = 0

\* what the host-info collaborator reports (getOSInfo, getHardwareInfo)
HostInfos == {"unknown", "GNU/Linux 6.1"}

NoRecord == [Timestamp |-> "", Filename |-> "", Metrics |-> <<>>]
NoWrap == [msg |-> "", cause |-> NilErr]

\* ScrapeHostMetrics that builds the record whatever getInstanceID returned
hostMetrics_IgnoreErr(r, os) ==
    [rec |-> [Timestamp |-> "time.Now()", Filename |-> telemetryFile,
              Metrics |-> [instanceId |-> r.id, OS |-> os,
                           deployment |-> "PACKAGE", hardware_arch |-> os]],
     err |-> NoWrap]

\* ScrapeHostMetrics, given the result r of getInstanceID
hostMetrics(r, os) ==
    IF r.err # NilErr
    THEN [rec |-> NoRecord,
          err |-> [msg |-> "can't get Percona telemetry instanceID", cause |-> r.err]]
    ELSE [rec |-> [Timestamp |-> "time.Now()", Filename |-> telemetryFile,
                   Metrics |-> [instanceId |-> r.id, OS |-> os,
                                deployment |-> "PACKAGE", hardware_arch |-> os]],
          err |-> NoWrap]

-----------------------------------------------------------------------------
(* sequential calls on one file system *)

FilePieces ==
    {instanceIDKey, <<":">>, <<" ">>, <<"\n">>, <<"a">>, <<Overlong>>,
     TelemetryLine(<<"b">>)}

NoOut == [op |-> "none", id |-> <<>>, err |-> NilErr, created |-> FALSE,
          fault |-> "none", dirBefore |-> FALSE, before |-> NoFile, host |-> [rec |-> NoRecord, err |-> NoWrap]]

IdleRace == pc = <<>> /\ loc = <<>> /\ lastWriter = 0
IdleParse == pIn = <<>> /\ pOut = <<>>
IdleScrape == scr = <<>>

InitId ==
    /\ dir \in BOOLEAN
    /\ file \in {NoFile} \cup {FileOf(c) : c \in Assembled(FilePieces, MaxPieces)}
    /\ (~dir => file = NoFile)
    /\ out = NoOut
    /\ writes = 0
    /\ clean = TRUE
    /\ firstID = <<>>
    /\ start = [dir |-> dir, file |-> file]
    /\ IdleRace /\ IdleParse /\ IdleScrape

\* the state a call leaves behind, shared by both entry points
Called(op, r, fault, host) ==
    /\ dir' = r.dir
    /\ file' = r.file
    /\ out' = [op |-> op, id |-> r.id, err |-> r.err, created |-> r.created,
               fault |-> fault, dirBefore |-> dir, before |-> file, host |-> host]
    /\ writes' = IF r.wrote THEN writes + 1 ELSE writes
    /\ clean' = (clean /\ fault = "none")
    /\ firstID' = IF r.wrote /\ writes = 0 THEN r.id ELSE firstID
    /\ UNCHANGED <<start, raceVars, parseVars, scr>>

\* The inputs of one call: the fault it runs into, the identifier uuid.New()
\* draws when the call gets to createTelemetryFile, and what a failing
\* write leaves behind.
Creates(d, f, fault) ==
    \/ ~d /\ fault # "mkdir"
    \/ d /\ fault # "open" /\ ~f.exists
    \/ d /\ fault \notin {"open", "stat"} /\ f.exists /\ Len(f.data) = 0

NoUuid == [i \in 1..UuidLen |-> "a"]

CallInputs ==
    UNION {{[fault |-> ft, uuid |-> u, left |-> n] :
               u \in IF Creates(dir, file, ft) THEN UUIDs ELSE {NoUuid},
               n \in IF ft = "write" THEN Leftovers ELSE {-1}} :
           ft \in {x \in Faults : Hits(dir, file, x)}}

\* a direct call of getInstanceID(telemetryFile)
GetInstanceID ==
    \E in \in CallInputs :
        /\ Called("getInstanceID", getInstanceID(dir, file, in.fault, in.uuid, in.left),
                  in.fault, [rec |-> NoRecord, err |-> NoWrap])

\* a call of ScrapeHostMetrics()
ScrapeHostMetrics ==
    \E in \in CallInputs, os \in HostInfos :
        /\ LET r == getInstanceID(dir, file, in.fault, in.uuid, in.left)
           IN  /\ (r.err # NilErr => os = "unknown")
               /\ Called("ScrapeHostMetrics", r, in.fault, hostMetrics(r, os))

NextId == GetInstanceID \/ ScrapeHostMetrics

Spec == InitId /\ [][NextId]_vars

-----------------------------------------------------------------------------
(* two calls of getInstanceID racing on one file system, one system call
   per step; no I/O step fails *)

Procs == {1, 2}

\* os.WriteFile opens with O_WRONLY|O_CREATE|O_TRUNC and then writes at
\* offset 0: what the file holds after the write of `mine`
writeAppend(data, mine) == data \o mine
writeAt(data, mine) == mine \o From(data, Len(mine))

RaceFiles == {NoFile, FileOf(<<>>), FileOf(TelemetryLine(NoUuid))}

NoLoc == [id |-> <<>>, err |-> NilErr, uuid |-> <<>>, saw |-> "", wrote |-> FALSE]

InitRace ==
    /\ dir \in BOOLEAN
    /\ file \in RaceFiles
    /\ (~dir => file = NoFile)
    /\ pc = [p \in Procs |-> "statDir"]
    /\ loc = [p \in Procs |-> NoLoc]
    /\ lastWriter = 0
    /\ out = NoOut /\ writes = 0 /\ clean = TRUE /\ firstID = <<>>
    /\ start = [dir |-> dir, file |-> file]
    /\ IdleParse /\ IdleScrape

RaceFrame == UNCHANGED <<idVars, parseVars, scr>>

\* os.Stat(dirName)
StatDir(p) ==
    /\ pc[p] = "statDir"
    /\ pc' = [pc EXCEPT ![p] = IF dir THEN "open" ELSE "mkdir"]
    /\ loc' = [loc EXCEPT ![p].saw = IF dir THEN "" ELSE "no directory"]
    /\ UNCHANGED <<dir, file, lastWriter>> /\ RaceFrame

\* os.MkdirAll(dirName, os.ModePerm): no error when the directory exists
MkdirAll(p) ==
    /\ pc[p] = "mkdir"
    /\ dir' = TRUE
    /\ pc' = [pc EXCEPT ![p] = "create"]
    /\ UNCHANGED <<file, loc, lastWriter>> /\ RaceFrame

\* os.Open(cleanInstanceFile)
Open(p) ==
    /\ pc[p] = "open"
    /\ pc' = [pc EXCEPT ![p] = IF file.exists THEN "statFile" ELSE "create"]
    /\ loc' = [loc EXCEPT ![p].saw = IF file.exists THEN "" ELSE "absent"]
    /\ UNCHANGED <<dir, file, lastWriter>> /\ RaceFrame

\* file.Stat() and the test of st.Size()
StatFile(p) ==
    /\ pc[p] = "statFile"
    /\ pc' = [pc EXCEPT ![p] = IF Len(file.data) = 0 THEN "create" ELSE "scan"]
    /\ loc' = [loc EXCEPT ![p].saw = IF Len(file.data) = 0 THEN "empty" ELSE "content"]
    /\ UNCHANGED <<dir, file, lastWriter>> /\ RaceFrame

\* the scan loop, on what the file holds when it is read
Scan(p) ==
    /\ pc[p] = "scan"
    /\ pc' = [pc EXCEPT ![p] = "done"]
    /\ loc' = [loc EXCEPT ![p].id = scanInstanceID(customSplitFunc(file.data).tokens)]
    /\ UNCHANGED <<dir, file, lastWriter>> /\ RaceFrame

\* createTelemetryFile: uuid.New(), then the open of os.WriteFile
Create(p) ==
    /\ pc[p] = "create"
    /\ \E u \in UUIDs : loc' = [loc EXCEPT ![p].uuid = u]
    /\ file' = FileOf(<<>>)
    /\ pc' = [pc EXCEPT ![p] = "write"]
    /\ UNCHANGED <<dir, lastWriter>> /\ RaceFrame

\* createTelemetryFile: the write of os.WriteFile, and the return
Write(p) ==
    /\ pc[p] = "write"
    /\ file' = FileOf(writeAt(file.data, TelemetryLine(loc[p].uuid)))
    /\ loc' = [loc EXCEPT ![p].id = loc[p].uuid, ![p].wrote = TRUE]
    /\ lastWriter' = p
    /\ pc' = [pc EXCEPT ![p] = "done"]
    /\ UNCHANGED dir /\ RaceFrame

NextRace ==
    \E p \in Procs :
        \/ StatDir(p) \/ MkdirAll(p) \/ Open(p) \/ StatFile(p)
        \/ Scan(p) \/ Create(p) \/ Write(p)

SpecRace == InitRace /\ [][NextRace]_vars

-----------------------------------------------------------------------------
(* the package scraper: output parsers *)

errPackageNotFound == "package is not found"
ErrTooLong == "bufio.Scanner: token too long"

\* (*Package)(nil)
NoPackage == [Name |-> <<>>, Version |-> <<>>]

NotFoundDpkg == <<"n","o"," ","p","a","c","k","a","g","e","s"," ","f","o","u","n","d"," ","m","a","t","c","h","i","n","g">>
NotFoundRpm == <<"i","s"," ","n","o","t"," ","i","n","s","t","a","l","l","e","d">>
StatusInstalled == <<"i","i">>
Dfsg == <<"+","d","f","s","g">>

\* bufio.ScanLines: the lines of data, a trailing carriage return dropped
dropCR(line) ==
    IF Len(line) > 0 /\ line[Len(line)] = "\r" THEN Upto(line, Len(line) - 1) ELSE line

ScanLines(data) ==
    ScanTokens([i \in 1..Len(RawLines(data)) |-> dropCR(RawLines(data)[i])])

\* the version of an installed dpkg line, release, epoch and +dfsg trimmed
dpkgVersion(token) ==
    LET v1 == IF LastIndex(token, <<".">>) # -1 THEN Upto(token, LastIndex(token, <<".">>)) ELSE token
        v2 == IF Index(v1, <<":">>) # -1 THEN From(v1, Index(v1, <<":">>) + 1) ELSE v1
    IN  IF Index(v2, Dfsg) # -1 THEN Upto(v2, Index(v2, Dfsg)) ELSE v2

\* the scan loop of parseDpkgOutput: whether it left by break, and version
RECURSIVE dpkgLoop(_, _)
dpkgLoop(packageName, lines) ==
    IF Len(lines) = 0 THEN [hit |-> FALSE, version |-> <<>>]
    ELSE LET line   == Trim(lines[1], {" ", "'"})
             tokens == Split(line, " ")
         IN  IF Len(line) = 0 THEN dpkgLoop(packageName, Tail(lines))
             ELSE IF Len(tokens) # 3 THEN dpkgLoop(packageName, Tail(lines))
             ELSE IF tokens[1] # packageName THEN dpkgLoop(packageName, Tail(lines))
             ELSE IF tokens[2] = StatusInstalled
                  THEN [hit |-> TRUE, version |-> dpkgVersion(tokens[3])]
                  ELSE dpkgLoop(packageName, Tail(lines))

\* what both parsers do after their loop
afterScan(packageName, scan, loop) ==
    IF ~loop.hit /\ scan.tooLong THEN [pkg |-> NoPackage, err |-> ErrTooLong]
    ELSE IF Len(loop.version) > 0
    THEN [pkg |-> [Name |-> packageName, Version |-> loop.version], err |-> NilErr]
    ELSE [pkg |-> NoPackage, err |-> errPackageNotFound]

\* parseDpkgOutput that passes every runner error on
parseDpkgOutput_NoSentinel(packageName, dpkgOutput, dpkgErr) ==
    IF dpkgErr # NilErr
    THEN [pkg |-> NoPackage, err |-> dpkgErr]
    ELSE afterScan(packageName, ScanLines(dpkgOutput),
                   dpkgLoop(packageName, ScanLines(dpkgOutput).tokens))

parseDpkgOutput(packageName, dpkgOutput, dpkgErr) ==
    IF dpkgErr # NilErr
    THEN IF Contains(dpkgOutput, NotFoundDpkg)
         THEN [pkg |-> NoPackage, err |-> errPackageNotFound]
         ELSE [pkg |-> NoPackage, err |-> dpkgErr]
    ELSE afterScan(packageName, ScanLines(dpkgOutput),
                   dpkgLoop(packageName, ScanLines(dpkgOutput).tokens))

\* the version of an rpm line: version and trimmed release joined by "-"
rpmVersion_KeepRelease(version, release) ==
    Join(<<version, ReplaceAll(release, ".", <<"-">>)>>, <<"-">>)

rpmVersion(version, release) ==
    LET r1 == IF LastIndex(release, <<".">>) # -1
              THEN Upto(release, LastIndex(release, <<".">>)) ELSE release
    IN  Join(<<version, ReplaceAll(r1, ".", <<"-">>)>>, <<"-">>)

\* the scan loop of parseRpmOutput
RECURSIVE rpmLoop(_, _)
rpmLoop(packageName, lines) ==
    IF Len(lines) = 0 THEN [hit |-> FALSE, version |-> <<>>]
    ELSE LET line   == Trim(lines[1], {" ", "'"})
             tokens == Split(line, " ")
         IN  IF Len(line) = 0 THEN rpmLoop(packageName, Tail(lines))
             ELSE IF Len(tokens) # 3 THEN rpmLoop(packageName, Tail(lines))
             ELSE IF tokens[1] # packageName THEN rpmLoop(packageName, Tail(lines))
             ELSE [hit |-> TRUE, version |-> rpmVersion(tokens[2], tokens[3])]

parseRpmOutput(packageName, rpmOutput, rpmErr) ==
    IF rpmErr # NilErr
    THEN IF Contains(rpmOutput, NotFoundRpm)
         THEN [pkg |-> NoPackage, err |-> errPackageNotFound]
         ELSE [pkg |-> NoPackage, err |-> rpmErr]
    ELSE afterScan(packageName, ScanLines(rpmOutput),
                   rpmLoop(packageName, ScanLines(rpmOutput).tokens))

-----------------------------------------------------------------------------
(* the parsers applied to bounded inputs *)

PkgA == <<"p","k","g","A">>
PkgB == <<"p","k","g","B">>

\* the examples of the parsers' comments and of the specification
DpkgExample == <<"p","k","g","A"," ","i","i"," ","2",":","8",".","1",".","0","-","1","-","1",".","j","a","m","m","y">>
RpmExample == <<"p","k","g","A"," ","8",".","1",".","0"," ","1",".","1",".","e","l","8">>

\* version and release tokens
VersionPieces == {<<"1">>, <<".">>, <<":">>, Dfsg}
VersionTokens == Assembled(VersionPieces, MaxVersionPieces) \ {<<>>}

\* one line of three tokens, quoted or not, ended by a newline or not
ThreeTokenOutputs ==
    {q \o n \o <<" ">> \o m \o <<" ">> \o v \o q \o e :
        q \in {<<>>, <<"'">>}, n \in {PkgA, PkgB},
        m \in {StatusInstalled, <<"r","c">>, <<"8",".","1">>},
        v \in VersionTokens, e \in {<<>>, <<"\n">>}}

\* outputs assembled from pieces of lines
OutputPieces ==
    {PkgA \o <<" ">>, StatusInstalled \o <<" ">>, <<"1",".","2">>, <<" ">>, <<"\n">>, <<"'">>}
PieceOutputs == Assembled(OutputPieces, MaxOutputPieces)

\* outputs assembled from whole lines
OutputLines ==
    {PkgA \o <<" ">> \o StatusInstalled \o <<" ">> \o <<"2",":","1",".","0",".","x">>,
     PkgA \o <<" ">> \o <<"1",".","0">> \o <<" ">> \o <<"1",".","x">>,
     PkgB \o <<" ">> \o StatusInstalled \o <<" ">> \o <<"1",".","x">>,
     PkgA \o <<" ">> \o StatusInstalled \o <<" ">> \o <<".","x">> \o <<"\r">>,
     <<Overlong>>,
     <<"d","p","k","g",":"," ">> \o NotFoundDpkg \o <<" ">> \o PkgA,
     <<"p","a","c","k","a","g","e"," ">> \o PkgA \o <<" ">> \o NotFoundRpm,
     <<>>}
LineOutputs ==
    {Join(ls, <<"\n">>) : ls \in UNION {[1..k -> OutputLines] : k \in 1..MaxOutputLines}}

Outputs == ThreeTokenOutputs \cup PieceOutputs \cup LineOutputs \cup {DpkgExample, RpmExample}

\* what cmd.CombinedOutput returns besides the output
RunnerErrs == {NilErr, "exit status 1"}

NoResult == [pkg |-> NoPackage, err |-> "not called"]

InitParse ==
    /\ pIn \in [parser : {"dpkg", "rpm"}, name : {PkgA}, output : Outputs, err : RunnerErrs]
    /\ pOut = NoResult
    /\ dir = FALSE /\ file = NoFile
    /\ out = NoOut /\ writes = 0 /\ clean = TRUE /\ firstID = <<>>
    /\ start = [dir |-> dir, file |-> file]
    /\ IdleRace /\ IdleScrape

ParseFrame == UNCHANGED <<dir, file, idVars, raceVars, pIn, scr>>

ParseDpkgOutput ==
    /\ pIn.parser = "dpkg" /\ pOut = NoResult
    /\ pOut' = parseDpkgOutput(pIn.name, pIn.output, pIn.err)
    /\ ParseFrame

ParseRpmOutput ==
    /\ pIn.parser = "rpm" /\ pOut = NoResult
    /\ pOut' = parseRpmOutput(pIn.name, pIn.output, pIn.err)
    /\ ParseFrame

NextParse == ParseDpkgOutput \/ ParseRpmOutput

SpecParse == InitParse /\ [][NextParse]_vars

-----------------------------------------------------------------------------
(* the package scraper: family detection and the scrape loop *)

Uppers == <<"A","B","C","D","E","F","G","H","I","J","K","L","M","N","O","P","Q","R","S","T","U","V","W","X","Y","Z">>
Lowers == <<"a","b","c","d","e","f","g","h","i","j","k","l","m","n","o","p","q","r","s","t","u","v","w","x","y","z">>

\* strings.ToLower on ASCII text
LowerOf == [c \in {Uppers[k] : k \in 1..Len(Uppers)} |->
               Lowers[CHOOSE k \in 1..Len(Uppers) : Uppers[k] = c]]

ToLower(s) == [i \in 1..Len(s) |-> IF s[i] \in DOMAIN LowerOf THEN LowerOf[s[i]] ELSE s[i]]

DebianPrefixes == <<<<"d","e","b","i","a","n">>, <<"u","b","u","n","t","u">>>>
RHELPrefixes == <<<<"e","l">>,
                  <<"c","e","n","t","o","s">>,
                  <<"o","r","a","c","l","e">>,
                  <<"r","o","c","k","y">>,
                  <<"r","e","d"," ","h","a","t">>,
                  <<"a","m","a","z","o","n">>,
                  <<"a","l","m","a">>>>

isDebianFamily(name) ==
    \E k \in 1..Len(DebianPrefixes) : HasPrefix(ToLower(name), DebianPrefixes[k])

isRHELFamily(name) ==
    \E k \in 1..Len(RHELPrefixes) : HasPrefix(ToLower(name), RHELPrefixes[k])

getCommonPackages ==
    <<<<"p","e","r","c","o","n","a","-","s","e","r","v","e","r","-","s","e","r","v","e","r">>,
      <<"p","e","r","c","o","n","a","-","s","e","r","v","e","r","-","s","e","r","v","e","r","-","p","r","o">>,
      <<"p","e","r","c","o","n","a","-","m","y","s","q","l","-","s","h","e","l","l">>,
      <<"p","e","r","c","o","n","a","-","m","y","s","q","l","-","r","o","u","t","e","r">>,
      <<"p","e","r","c","o","n","a","-","m","y","s","q","l","-","r","o","u","t","e","r","-","p","r","o">>,
      <<"p","r","o","x","y","s","q","l">>,
      <<"p","r","o","x","y","s","q","l","2">>,
      <<"p","e","r","c","o","n","a","-","o","r","c","h","e","s","t","r","a","t","o","r">>,
      <<"p","e","r","c","o","n","a","-","x","t","r","a","d","b","-","c","l","u","s","t","e","r","-","s","e","r","v","e","r">>,
      <<"p","e","r","c","o","n","a","-","x","t","r","a","d","b","-","c","l","u","s","t","e","r","-","m","y","s","q","l","-","r","o","u","t","e","r">>,
      <<"p","e","r","c","o","n","a","-","s","e","r","v","e","r","-","m","o","n","g","o","d","b","-","s","e","r","v","e","r">>,
      <<"p","e","r","c","o","n","a","-","s","e","r","v","e","r","-","m","o","n","g","o","d","b","-","s","e","r","v","e","r","-","p","r","o">>,
      <<"p","e","r","c","o","n","a","-","s","e","r","v","e","r","-","m","o","n","g","o","d","b","-","m","o","n","g","o","s">>,
      <<"p","e","r","c","o","n","a","-","s","e","r","v","e","r","-","m","o","n","g","o","d","b","-","m","o","n","g","o","s","-","p","r","o">>,
      <<"p","e","r","c","o","n","a","-","b","a","c","k","u","p","-","m","o","n","g","o","d","b">>,
      <<"e","t","c","d">>,
      <<"p","e","r","c","o","n","a","-","p","g","b","o","u","n","c","e","r">>,
      <<"p","e","r","c","o","n","a","-","x","t","r","a","b","a","c","k","u","p","-","2","4">>,
      <<"p","e","r","c","o","n","a","-","x","t","r","a","b","a","c","k","u","p","-","8","0">>,
      <<"p","e","r","c","o","n","a","-","x","t","r","a","b","a","c","k","u","p","-","8","1">>,
      <<"p","e","r","c","o","n","a","-","x","t","r","a","b","a","c","k","u","p","-","8","2">>,
      <<"p","e","r","c","o","n","a","-","x","t","r","a","b","a","c","k","u","p","-","8","3">>,
      <<"p","e","r","c","o","n","a","-","t","o","o","l","k","i","t">>,
      <<"p","e","r","c","o","n","a","-","h","a","p","r","o","x","y">>,
      <<"p","m","m","2","-","c","l","i","e","n","t">>,
      <<"p","e","r","c","o","n","a","-","t","e","l","e","m","e","t","r","y","-","a","g","e","n","t">>>>

getDebianPackages ==
    <<<<"P","e","r","c","o","n","a","-","S","e","r","v","e","r","-","s","e","r","v","e","r","-","5",".","7">>,
      <<"P","e","r","c","o","n","a","-","X","t","r","a","d","b","-","C","l","u","s","t","e","r","-","s","e","r","v","e","r","-","5",".","7">>,
      <<"p","e","r","c","o","n","a","-","p","o","s","t","g","r","e","s","q","l","-","1","4">>,
      <<"p","e","r","c","o","n","a","-","p","o","s","t","g","r","e","s","q","l","-","1","5">>,
      <<"p","e","r","c","o","n","a","-","p","o","s","t","g","r","e","s","q","l","-","1","6">>>>

getRhelPackages ==
    <<<<"P","e","r","c","o","n","a","-","S","e","r","v","e","r","-","s","e","r","v","e","r","-","5","7">>,
      <<"P","e","r","c","o","n","a","-","X","t","r","a","D","B","-","C","l","u","s","t","e","r","-","s","e","r","v","e","r","-","5","7">>,
      <<"p","e","r","c","o","n","a","-","p","o","s","t","g","r","e","s","q","l","1","4","-","s","e","r","v","e","r">>,
      <<"p","e","r","c","o","n","a","-","p","o","s","t","g","r","e","s","q","l","1","5","-","s","e","r","v","e","r">>,
      <<"p","e","r","c","o","n","a","-","p","o","s","t","g","r","e","s","q","l","1","6","-","s","e","r","v","e","r">>>>

\* the first n names of a list
Take(list, n) == SubSeq(list, 1, IF n < Len(list) THEN n ELSE Len(list))

\* the switch of ScrapeInstalledPackages: the query function and the list
pkgFamily_DefaultDpkg(localOs) ==
    IF isRHELFamily(localOs) THEN "rpm" ELSE "dpkg"

pkgFamily(localOs) ==
    IF isDebianFamily(localOs) THEN "dpkg"
    ELSE IF isRHELFamily(localOs) THEN "rpm"
    ELSE "none"

pkgListOf(family) ==
    Take(getCommonPackages, MaxCommon)
        \o (IF family = "dpkg" THEN Take(getDebianPackages, MaxFamily)
            ELSE IF family = "rpm" THEN Take(getRhelPackages, MaxFamily)
            ELSE <<>>)

\* what the host-info collaborator reports as OS
OSNames ==
    {<<"u","n","k","n","o","w","n">>,
     <<"U","b","u","n","t","u"," ","2","2",".","0","4">>,
     <<"d","e","b","i","a","n"," ","1","2">>,
     <<"U","B","U","N","T","U">>,
     <<"C","e","n","t","O","S"," ","7">>,
     <<"e","l","9">>,
     <<"O","r","a","c","l","e"," ","L","i","n","u","x"," ","8">>,
     <<"R","e","d"," ","H","a","t"," ","9">>,
     <<"A","m","a","z","o","n"," ","L","i","n","u","x"," ","2">>,
     <<"A","l","m","a","L","i","n","u","x"," ","9">>,
     <<"r","o","c","k","y">>,
     <<"G","N","U","/","L","i","n","u","x"," ","6",".","1">>,
     <<"R","e","d","H","a","t"," ","8">>,
     <<"S","L","E","S"," ","1","5">>,
     <<>>,
     <<" ","u","b","u","n","t","u">>,
     <<"e">>,
     <<"F","e","d","o","r","a"," ","4","0">>}

\* what cmd.CombinedOutput may return for a query of packageName
RunnerResults(family, packageName) ==
    IF family = "dpkg"
    THEN {[output |-> <<"'">> \o packageName \o <<" ","i","i"," ","1",":","2",".","3","-","1",".","x","'">>,
           err |-> NilErr],
          [output |-> <<"'">> \o packageName \o <<" ","r","c"," ","2",".","3","-","1",".","x","'">>,
           err |-> NilErr],
          [output |-> <<"d","p","k","g",":"," ">> \o NotFoundDpkg \o <<" ">> \o packageName,
           err |-> "exit status 1"],
          [output |-> <<>>, err |-> "exec: executable file not found"]}
    ELSE {[output |-> <<"'">> \o packageName \o <<" ","2",".","3"," ","1",".","e","l","9","'">>,
           err |-> NilErr],
          [output |-> <<"p","a","c","k","a","g","e"," ">> \o packageName \o <<" ">> \o NotFoundRpm,
           err |-> "exit status 1"],
          [output |-> <<>>, err |-> "exec: executable file not found"],
          [output |-> <<>>, err |-> "signal: killed"]}

\* queryDpkg / queryRpm on what the command returned
pkgFunc(family, packageName, r) ==
    IF family = "dpkg"
    THEN parseDpkgOutput(packageName, r.output, r.err)
    ELSE parseRpmOutput(packageName, r.output, r.err)

\* one iteration of the loop that returns at the first error other than
\* "package is not found"
loopBody_StopOnError(s, pName, res) ==
    IF res.err # NilErr
    THEN [s EXCEPT !.i = s.i + 1, !.log = Append(s.log, [name |-> pName, res |-> res]),
                   !.pc = IF res.err = errPackageNotFound THEN "loop" ELSE "done"]
    ELSE [s EXCEPT !.i = s.i + 1, !.log = Append(s.log, [name |-> pName, res |-> res]),
                   !.toReturn = Append(s.toReturn, res.pkg)]

\* one iteration of the loop over pkgList; log records the probe made
loopBody(s, pName, res) ==
    IF res.err # NilErr
    THEN [s EXCEPT !.i = s.i + 1, !.log = Append(s.log, [name |-> pName, res |-> res])]
    ELSE [s EXCEPT !.i = s.i + 1, !.log = Append(s.log, [name |-> pName, res |-> res]),
                   !.toReturn = Append(s.toReturn, res.pkg)]

InitScrape ==
    /\ scr \in [pc : {"start"}, localOs : OSNames, family : {"none"}, pkgList : {<<>>},
                i : {0}, toReturn : {<<>>}, log : {<<>>}]
    /\ dir = FALSE /\ file = NoFile
    /\ out = NoOut /\ writes = 0 /\ clean = TRUE /\ firstID = <<>>
    /\ start = [dir |-> dir, file |-> file]
    /\ IdleRace /\ IdleParse

ScrapeFrame == UNCHANGED <<dir, file, idVars, raceVars, parseVars>>

\* ScrapeInstalledPackages up to the loop, or to the return of the default case
ScrapeStart ==
    /\ scr.pc = "start"
    /\ scr' = [scr EXCEPT !.family = pkgFamily(scr.localOs),
                          !.pkgList = pkgListOf(pkgFamily(scr.localOs)),
                          !.pc = IF pkgFamily(scr.localOs) = "none" THEN "done" ELSE "loop"]
    /\ ScrapeFrame

\* one iteration: the query command runs and its output is parsed
Probe ==
    /\ scr.pc = "loop" /\ scr.i < Len(scr.pkgList)
    /\ \E r \in RunnerResults(scr.family, scr.pkgList[scr.i + 1]) :
          scr' = loopBody(scr, scr.pkgList[scr.i + 1],
                          pkgFunc(scr.family, scr.pkgList[scr.i + 1], r))
    /\ ScrapeFrame

\* the return after the loop
ScrapeReturn ==
    /\ scr.pc = "loop" /\ scr.i = Len(scr.pkgList)
    /\ scr' = [scr EXCEPT !.pc = "done"]
    /\ ScrapeFrame

NextScrape == ScrapeStart \/ Probe \/ ScrapeReturn

SpecScrape == InitScrape /\ [][NextScrape]_vars

-----------------------------------------------------------------------------
(* Properties of the identity file under sequential calls *)

Returned == out.op # "none"

\* a line cut once at its first ":" into key and value
HasColon(line) == \E i \in 1..Len(line) : line[i] = ":"
KeyOf(line) == Upto(line, Index(line, <<":">>))
ValueOf(line) == From(line, Index(line, <<":">>) + 1)
Colons(line) == Cardinality({i \in 1..Len(line) : line[i] = ":"})

FirstOf(S) == CHOOSE i \in S : \A j \in S : i <= j

\* C1: from a state without directory and file, the first call creates
\* both and returns a non-empty generated identifier; every later call of a
\* run without I/O failures returns that identifier and leaves the file as
\* the first call wrote it.
C1_StableIdentity ==
    (Returned /\ clean /\ ~start.dir) =>
        /\ dir /\ file.exists
        /\ firstID \in UUIDs /\ Len(firstID) > 0
        /\ out.id = firstID /\ out.err = NilErr
        /\ file.data = TelemetryLine(firstID)
        /\ (out.created <=> ~out.dirBefore)
        /\ (~out.created => file = out.before)

C1_Witness ==
    /\ Returned /\ clean /\ ~start.dir
    /\ ~out.created /\ out.before = file /\ out.id = firstID /\ Len(out.id) > 0

\* C2: a call on a non-empty file none of whose lines has the key
\* instanceId returns the empty string, does not get to createTelemetryFile
\* and leaves the file as it was; it returns no error unless the open or
\* the stat of the file failed.
NoLineHasKey(data) ==
    \A i \in 1..Len(RawLines(data)) :
        ~(HasColon(RawLines(data)[i]) /\ KeyOf(RawLines(data)[i]) = instanceIDKey)

C2_NoKeyNoRewrite ==
    (/\ Returned
     /\ out.before.exists /\ Len(out.before.data) > 0
     /\ NoLineHasKey(out.before.data)) =>
        /\ ~out.created
        /\ file = out.before
        /\ writes = 0
        /\ out.id = <<>>
        /\ (out.fault = "none" => out.err = NilErr)

C2_Witness ==
    /\ Returned /\ out.fault = "none"
    /\ out.before.exists /\ Len(out.before.data) > 1
    /\ NoLineHasKey(out.before.data)
    /\ HasColon(out.before.data)
    /\ out.id = <<>> /\ file = out.before

\* C5: a failing directory creation, open, stat or write makes getInstanceID
\* return an error and no identifier, and ScrapeHostMetrics an error and no
\* record; an absent directory or file alone gives no error but a new
\* identity.
C5_HardErrors ==
    /\ (Returned /\ out.fault # "none") =>
          /\ out.err # NilErr /\ out.id = <<>>
          /\ (out.op = "ScrapeHostMetrics" =>
                 /\ out.host.rec = NoRecord
                 /\ out.host.err # NoWrap /\ out.host.err.cause = out.err)
    /\ (Returned /\ out.fault = "none" /\ (~out.dirBefore \/ ~out.before.exists)) =>
          /\ out.err = NilErr /\ out.created
          /\ out.id \in UUIDs /\ file = FileOf(TelemetryLine(out.id))
          /\ (out.op = "ScrapeHostMetrics" =>
                 /\ out.host.err = NoWrap
                 /\ out.host.rec.Metrics.instanceId = out.id)

C5_Witness ==
    /\ out.op = "ScrapeHostMetrics" /\ out.fault = "write"
    /\ out.err # NilErr /\ out.host.rec = NoRecord
    /\ file.exists /\ Len(file.data) > 0

\* C8: in a run without I/O failures the file is written at most once, and
\* only by a call that found the directory absent, the file absent or the
\* file empty.
C8_WrittenAtMostOnce ==
    clean =>
        /\ writes <= 1
        /\ (Returned /\ out.created) =>
              (~out.dirBefore \/ ~out.before.exists \/ Len(out.before.data) = 0)
        /\ (Returned /\ file # out.before) => out.created
        /\ (Returned /\ ~out.created) => file = out.before

C8_Witness ==
    /\ clean /\ writes = 1 /\ Returned /\ ~out.created
    /\ start.dir /\ start.file.exists /\ Len(start.file.data) = 0
    /\ file = FileOf(TelemetryLine(firstID))

\* C9 as stated: the value of the first line whose key, cutting the line
\* once at its first ":", is instanceId; the empty string if there is none.
SplitOnceID(data) ==
    LET lines == RawLines(data)
        hits  == {i \in 1..Len(lines) : HasColon(lines[i]) /\ KeyOf(lines[i]) = instanceIDKey}
    IN  IF hits = {} THEN <<>> ELSE TrimSpace(ValueOf(lines[FirstOf(hits)]))

C9_SplitOnce ==
    (/\ Returned /\ out.fault = "none"
     /\ out.before.exists /\ Len(out.before.data) > 0) =>
        out.id = SplitOnceID(out.before.data)

\* C9 as amended: the value of the first line that holds exactly one ":"
\* and whose text before it is instanceId, among the lines before the first
\* line too long for the scanner; the empty string if there is none.
ExactlyOneColonID(data) ==
    LET lines == RawLines(data)
        long  == {i \in 1..Len(lines) : \E k \in 1..Len(lines[i]) : lines[i][k] = Overlong}
        hits  == {i \in 1..Len(lines) :
                     /\ \A j \in long : i < j
                     /\ Colons(lines[i]) = 1 /\ KeyOf(lines[i]) = instanceIDKey}
    IN  IF hits = {} THEN <<>> ELSE TrimSpace(ValueOf(lines[FirstOf(hits)]))

C9_ExactlyOneColon ==
    (/\ Returned /\ out.fault = "none"
     /\ out.before.exists /\ Len(out.before.data) > 0) =>
        /\ out.id = ExactlyOneColonID(out.before.data)
        /\ out.err = NilErr

\* a second line gives the value, and it is trimmed
C9_Witness ==
    /\ Returned /\ out.fault = "none"
    /\ Len(RawLines(out.before.data)) = 2
    /\ out.id = <<"b">> /\ ValueOf(RawLines(out.before.data)[2]) = <<" ", "b">>


-----------------------------------------------------------------------------
(* Properties of racing calls *)

BothDone == \A p \in Procs : pc[p] = "done"
Other(p) == CHOOSE q \in Procs : q # p

\* C10: when both racing calls found no identity and both wrote, neither
\* returns an error, each returns the identifier it generated, and the file
\* holds the line of the later writer only; with different identifiers
\* generated, the earlier writer's identifier is stored nowhere.
C10_LastWriterWins ==
    (BothDone /\ \A p \in Procs : loc[p].wrote) =>
        /\ \A p \in Procs :
              /\ loc[p].err = NilErr
              /\ loc[p].id = loc[p].uuid /\ loc[p].id \in UUIDs
              /\ loc[p].saw \in {"no directory", "absent", "empty"}
        /\ lastWriter \in Procs
        /\ file = FileOf(TelemetryLine(loc[lastWriter].id))
        /\ (loc[1].id # loc[2].id =>
               scanInstanceID(customSplitFunc(file.data).tokens) # loc[Other(lastWriter)].id)

C10_Witness ==
    /\ BothDone
    /\ \A p \in Procs : loc[p].wrote /\ loc[p].saw = "absent" /\ loc[p].err = NilErr
    /\ loc[1].id # loc[2].id
    /\ lastWriter = 2
    /\ file = FileOf(TelemetryLine(loc[2].id))

-----------------------------------------------------------------------------
(* Properties of the output parsers *)

Parsed == pOut # NoResult

NotFoundText == IF pIn.parser = "dpkg" THEN NotFoundDpkg ELSE NotFoundRpm

\* the lines of the output, and those before the first over-long one
OutputLinesOf(output) == [i \in 1..Len(RawLines(output)) |-> dropCR(RawLines(output)[i])]
IsOverlong(line) == \E k \in 1..Len(line) : line[k] = Overlong
HasOverlong(output) == \E i \in 1..Len(OutputLinesOf(output)) : IsOverlong(OutputLinesOf(output)[i])
ReadLines(output) ==
    {i \in 1..Len(OutputLinesOf(output)) : \A j \in 1..i : ~IsOverlong(OutputLinesOf(output)[j])}

\* a qualifying line: three space-separated tokens, the first the queried
\* name and, for dpkg, the second the status "ii"
Qualifies(line) ==
    LET tokens == Split(Trim(line, {" ", "'"}), " ")
    IN  /\ Len(tokens) = 3
        /\ tokens[1] = pIn.name
        /\ (pIn.parser = "dpkg" => tokens[2] = StatusInstalled)

NotFound == [pkg |-> NoPackage, err |-> errPackageNotFound]

\* C6 as stated: the rpm parser turns "pkgA 8.1.0 1.1.el8" into version
\* "8.1.0-1-1-el8".
RpmExampleIn == [parser |-> "rpm", name |-> PkgA, output |-> RpmExample, err |-> NilErr]

C6_KeepsLastSegment ==
    (Parsed /\ pIn = RpmExampleIn) =>
        pOut = [pkg |-> [Name |-> PkgA, Version |-> <<"8",".","1",".","0","-","1","-","1","-","e","l","8">>], err |-> NilErr]

\* C6 as amended: the rpm parser turns "pkgA 8.1.0 1.1.el8" into version
\* "8.1.0-1-1", the release's last segment "el8" dropped.
C6_DropsLastSegment ==
    (Parsed /\ pIn = RpmExampleIn) =>
        pOut = [pkg |-> [Name |-> PkgA, Version |-> <<"8",".","1",".","0","-","1","-","1">>], err |-> NilErr]

C6_Witness == Parsed /\ pIn = RpmExampleIn /\ pOut.pkg.Name = PkgA

\* C7 as stated: a runner error with the not-found text gives the sentinel,
\* any other runner error is returned as it is, no error and no qualifying
\* line gives the sentinel, and a Package, named as queried, is returned
\* only in the remaining case.
C7_FourCases ==
    Parsed =>
        /\ (pIn.err # NilErr /\ Contains(pIn.output, NotFoundText)) => pOut = NotFound
        /\ (pIn.err # NilErr /\ ~Contains(pIn.output, NotFoundText)) =>
              pOut = [pkg |-> NoPackage, err |-> pIn.err]
        /\ (/\ pIn.err = NilErr
            /\ \A i \in 1..Len(OutputLinesOf(pIn.output)) :
                  ~Qualifies(OutputLinesOf(pIn.output)[i])) => pOut = NotFound
        /\ pOut.pkg # NoPackage =>
              /\ pIn.err = NilErr
              /\ \E i \in 1..Len(OutputLinesOf(pIn.output)) :
                    Qualifies(OutputLinesOf(pIn.output)[i])
              /\ pOut.pkg.Name = pIn.name /\ pOut.err = NilErr

\* C7 as amended: as stated, except that the lines are read up to the first
\* line too long for the scanner, and that with no runner error and no
\* qualifying line read, the result is the sentinel when every line was
\* read and the scanner's error when an over-long line stopped the scan.
C7_FiveCases ==
    Parsed =>
        /\ (pIn.err # NilErr /\ Contains(pIn.output, NotFoundText)) => pOut = NotFound
        /\ (pIn.err # NilErr /\ ~Contains(pIn.output, NotFoundText)) =>
              pOut = [pkg |-> NoPackage, err |-> pIn.err]
        /\ (/\ pIn.err = NilErr
            /\ \A i \in ReadLines(pIn.output) : ~Qualifies(OutputLinesOf(pIn.output)[i])) =>
              pOut = IF HasOverlong(pIn.output)
                     THEN [pkg |-> NoPackage, err |-> ErrTooLong]
                     ELSE NotFound
        /\ pOut.pkg # NoPackage =>
              /\ pIn.err = NilErr
              /\ \E i \in ReadLines(pIn.output) : Qualifies(OutputLinesOf(pIn.output)[i])
              /\ pOut.pkg.Name = pIn.name /\ pOut.err = NilErr

\* no runner error, a line that does not qualify, then an over-long line
C7_Witness ==
    /\ Parsed /\ pIn.parser = "dpkg" /\ pIn.err = NilErr
    /\ Len(OutputLinesOf(pIn.output)) = 2
    /\ HasPrefix(OutputLinesOf(pIn.output)[1], PkgB)
    /\ IsOverlong(OutputLinesOf(pIn.output)[2])
    /\ pOut = [pkg |-> NoPackage, err |-> ErrTooLong]

-----------------------------------------------------------------------------
(* Properties of the package scraper *)

Supported == isDebianFamily(scr.localOs) \/ isRHELFamily(scr.localOs)

\* the catalogue: the common list followed by the family's list
Catalogue ==
    Take(getCommonPackages, MaxCommon)
        \o Take(IF isDebianFamily(scr.localOs) THEN getDebianPackages ELSE getRhelPackages,
                MaxFamily)

\* the packages of the probes that found one, in the order of the probes
RECURSIVE FoundIn(_)
FoundIn(log) ==
    IF Len(log) = 0 THEN <<>>
    ELSE (IF log[1].res.err = NilErr THEN <<log[1].res.pkg>> ELSE <<>>) \o FoundIn(Tail(log))

\* C3: on a supported family the names are probed once each, one after the
\* other in catalogue order, whatever the earlier probes gave; what is
\* returned are the packages found, in catalogue order.
C3_EveryNameProbedInOrder ==
    (scr.pc # "start" /\ Supported) =>
        /\ scr.pkgList = Catalogue
        /\ Len(scr.log) = scr.i /\ scr.i <= Len(Catalogue)
        /\ \A k \in 1..Len(scr.log) : scr.log[k].name = Catalogue[k]
        /\ scr.toReturn = FoundIn(scr.log)
        /\ \A k \in 1..Len(scr.log) :
              scr.log[k].res.err = NilErr => scr.log[k].res.pkg.Name = Catalogue[k]
        /\ scr.pc = "done" => Len(scr.log) = Len(Catalogue)

\* a failed first probe, a later probe that found its package
C3_Witness ==
    /\ scr.pc = "done" /\ Supported
    /\ scr.log[1].res.err \notin {NilErr, errPackageNotFound}
    /\ scr.log[2].res.err = errPackageNotFound
    /\ scr.log[3].res.err = NilErr
    /\ scr.toReturn = <<scr.log[3].res.pkg>>
    /\ scr.toReturn[1].Name = Catalogue[3]

\* C4: with an OS identifier that has none of the debian or rhel prefixes,
\* the scrape returns an empty sequence and runs no query.
C4_UnsupportedProbesNothing ==
    (scr.pc # "start" /\ ~Supported) =>
        scr.pc = "done" /\ scr.toReturn = <<>> /\ scr.log = <<>>

C4_Witness ==
    /\ scr.pc = "done" /\ scr.localOs = <<"u","n","k","n","o","w","n">>
    /\ scr.toReturn = <<>> /\ scr.log = <<>>

=============================================================================
